---------------------------- MODULE Spec2Model ----------------------------
(***************************************************************************)
(* A model of src/src/pybind/cephfs.py: the error translator make_ex and   *)
(* the LibCephFS session object (lifecycle state, native handle, and every *)
(* public method).  The native library is a stub: each native entry point  *)
(* returns a value chosen from NativeRets, ceph_create makes the handle    *)
(* live and ceph_shutdown destroys it.  Each method is one action; the     *)
(* variable last records the most recent invocation (operation, state      *)
(* before, arguments, exception raised, value returned, native calls in    *)
(* the order they were made).  Spec runs the methods one at a time;        *)
(* ThreadSpec runs mount() and shutdown() on two threads of one session,   *)
(* one statement at a time.                                                *)
(***************************************************************************)
EXTENDS Integers, Sequences, FiniteSets, TLC

VARIABLES
    state,      \* self.state; "unset" while the attribute does not exist
    handle,     \* native status of self.cluster: "null", "live", "destroyed"
    nshut,      \* number of native ceph_shutdown calls made on this session
    held,       \* TRUE iff the constructor returned, so the caller has the object
    last,       \* record of the most recent invocation
    pc          \* per thread, the statement of mount()/shutdown() it is at

vars == <<state, handle, nshut, held, last, pc>>

----------------------------------------------------------------------------
(* Bounds *)

MaxCode == 62            \* make_ex is exercised on codes -MaxCode..MaxCode
MaxConf == 2             \* most options in the constructor's conf mapping
MaxBufLen == 1           \* longest native output buffer of ceph_mds_command
MaxShutdownCalls == 3    \* cap on the counter nshut
MaxValLen == 41          \* longest configuration value ceph_conf_get holds

----------------------------------------------------------------------------
(* errno values used by the module *)

EPERM == 1
ENOENT == 2
EIO == 5
EEXIST == 17
ENOSPC == 28
ENAMETOOLONG == 36
ENODATA == 61

Codes == (0 - MaxCode)..MaxCode

(* Values a native entry point may return: success, a positive value, the  *)
(* codes the wrapper treats specially, a mapped and an unmapped errno.     *)
NativeRets == {0 - MaxCode, 0 - ENAMETOOLONG, 0 - ENOENT, 0 - EPERM, 0, 1}

Abs(n) == IF n < 0 THEN 0 - n ELSE n

----------------------------------------------------------------------------
(* Python values passed as arguments, by type and printed form *)

StrV == [kind |-> "str", repr |-> "/x"]
EmptyStrV == [kind |-> "str", repr |-> ""]
IntV == [kind |-> "int", repr |-> "7"]
NoneV == [kind |-> "NoneType", repr |-> "None"]
FloatV == [kind |-> "float", repr |-> "1.5"]
ListV == [kind |-> "list", repr |-> "['a']"]

(* Arguments tried for a parameter, by what the method does with it:       *)
(* converts it with c_char_p, tests it with isinstance(..., str), converts  *)
(* or tests it as an integer, takes its len().                              *)
PtrArgs == {StrV, NoneV, IntV, FloatV}
StrArgs == {StrV, IntV}
IntArgs == {IntV, StrV}
SeqArgs == {ListV, IntV}

isinstance_str(v) == v.kind = "str"
isinstance_int(v) == v.kind = "int"

(* ctypes conversions: c_char_p takes a string, None or an integer address; *)
(* c_int and c_size_t take an integer; len() needs a sized object.          *)
c_char_p_ok(v) == v.kind \in {"str", "NoneType", "int"}
c_int_ok(v) == v.kind = "int"
len_ok(v) == v.kind \in {"str", "list"}

----------------------------------------------------------------------------
(* Exceptions *)

NoExc == [kind |-> "none", msg |-> ""]
Exc(k, m) == [kind |-> k, msg |-> m]

ErrorKinds == {"Error", "PermissionError", "ObjectNotFound", "NoData",
               "ObjectExists", "IOError", "NoSpace", "IncompleteWriteError",
               "LibCephFSStateError"}

errors == [e \in {EPERM, ENOENT, EIO, ENOSPC, EEXIST, ENODATA} |->
             CASE e = EPERM -> "PermissionError"
               [] e = ENOENT -> "ObjectNotFound"
               [] e = EIO -> "IOError"
               [] e = ENOSPC -> "NoSpace"
               [] e = EEXIST -> "ObjectExists"
               [] e = ENODATA -> "NoData"]


(* make_ex without the abs(): the table is looked up with the signed code. *)
make_ex_signed(ret, msg) ==
    IF ret \in DOMAIN errors
    THEN Exc(errors[ret], msg)
    ELSE Exc("Error", msg \o ": error code " \o ToString(ret))

make_ex(ret, msg) ==
    LET r == Abs(ret)
    IN  IF r \in DOMAIN errors
        THEN Exc(errors[r], msg)
        ELSE Exc("Error", msg \o ": error code " \o ToString(r))

----------------------------------------------------------------------------
(* The session object and the result of running a method on it *)

Obj(s, h, n) == [state |-> s, handle |-> h, nshut |-> n]

(* Values returned to the caller: the type, and the integer or the tuple   *)
(* components where there are any.                                         *)
RetV(k, items) == [kind |-> k, items |-> items]

None == RetV("NoneType", <<>>)

TypeError(o, m) == [o |-> o, exc |-> [kind |-> "TypeError", msg |-> m],
                    ret |-> None, calls |-> <<>>]

Frame(o, e, r, c) == [o |-> o, exc |-> e, ret |-> r, calls |-> c]

Raised(f) == f.exc.kind # "none"

(* A native call: entry point, status of the handle passed ("none" when the *)
(* entry point takes no handle), the value it returned, the buffer it was   *)
(* given ("" when none) and the buffer length it was given (0 when none).   *)
CallA(fn, h, r, a, n) == [fn |-> fn, h |-> h, ret |-> r, arg |-> a, len |-> n]

Call(fn, h, r) == CallA(fn, h, r, "", 0)


(* require_state with the comparison lost: any existing state passes. *)
require_state_lax(o, allowed) ==
    IF o.state = "unset"
    THEN Exc("AttributeError", "'LibCephFS' object has no attribute 'state'")
    ELSE NoExc

require_state(o, allowed) ==
    IF o.state = "unset"
    THEN Exc("AttributeError", "'LibCephFS' object has no attribute 'state'")
    ELSE IF \E i \in 1..Len(allowed) : o.state = allowed[i]
         THEN NoExc
         ELSE Exc("LibCephFSStateError",
                  "You cannot perform that operation on a CephFS object in state "
                  \o o.state \o ".")

----------------------------------------------------------------------------
(* Lifecycle methods *)


(* shutdown without the test of self.state. *)
shutdown_unguarded(o) ==
    IF o.state = "unset"
    THEN Frame(o, require_state(o, <<>>), None, <<>>)
    ELSE Frame(Obj("shutdown", "destroyed", o.nshut + 1), NoExc, None,
               <<Call("ceph_shutdown", o.handle, 0)>>)

shutdown(o) ==
    IF o.state = "unset"
    THEN Frame(o, require_state(o, <<>>), None, <<>>)
    ELSE IF o.state # "shutdown"
         THEN Frame(Obj("shutdown", "destroyed", o.nshut + 1), NoExc, None,
                    <<Call("ceph_shutdown", o.handle, 0)>>)
         ELSE Frame(o, NoExc, None, <<>>)


(* init with the state assignment moved above the test of ret. *)
init_early_state(o, ret) ==
    LET rs == require_state(o, <<"configuring">>)
    IN  IF rs # NoExc THEN Frame(o, rs, None, <<>>)
        ELSE LET c == <<Call("ceph_init", o.handle, ret)>>
                 o1 == Obj("initialized", o.handle, o.nshut)
             IN  IF ret # 0
                 THEN Frame(o1, make_ex(ret, "error calling ceph_init"), None, c)
                 ELSE Frame(o1, NoExc, None, c)

init(o, ret) ==
    LET rs == require_state(o, <<"configuring">>)
    IN  IF rs # NoExc THEN Frame(o, rs, None, <<>>)
        ELSE LET c == <<Call("ceph_init", o.handle, ret)>>
             IN  IF ret # 0
                 THEN Frame(o, make_ex(ret, "error calling ceph_init"), None, c)
                 ELSE Frame(Obj("initialized", o.handle, o.nshut), NoExc, None, c)


(* mount with the state assignment moved above the test of ret. *)
mount_early_state(o, rinit, rmount) ==
    LET fi == IF o.state = "configuring" THEN init(o, rinit)
              ELSE Frame(o, NoExc, None, <<>>)
    IN  IF Raised(fi) THEN fi
        ELSE LET rs == require_state(fi.o, <<"initialized">>)
             IN  IF rs # NoExc THEN Frame(fi.o, rs, None, fi.calls)
                 ELSE LET c == Append(fi.calls,
                                      Call("ceph_mount", fi.o.handle, rmount))
                          o1 == Obj("mounted", fi.o.handle, fi.o.nshut)
                      IN  IF rmount # 0
                          THEN Frame(o1, make_ex(rmount, "error calling ceph_mount"),
                                     None, c)
                          ELSE Frame(o1, NoExc, None, c)


(* mount that also accepts a session that was shut down. *)
mount_after_shutdown(o, rinit, rmount) ==
    LET fi == IF o.state = "configuring" THEN init(o, rinit)
              ELSE Frame(o, NoExc, None, <<>>)
    IN  IF Raised(fi) THEN fi
        ELSE LET rs == require_state(fi.o, <<"initialized", "shutdown">>)
             IN  IF rs # NoExc THEN Frame(fi.o, rs, None, fi.calls)
                 ELSE LET c == Append(fi.calls,
                                      Call("ceph_mount", fi.o.handle, rmount))
                      IN  IF rmount # 0
                          THEN Frame(fi.o, make_ex(rmount, "error calling ceph_mount"),
                                     None, c)
                          ELSE Frame(Obj("mounted", fi.o.handle, fi.o.nshut),
                                     NoExc, None, c)

mount(o, rinit, rmount) ==
    LET fi == IF o.state = "configuring" THEN init(o, rinit)
              ELSE Frame(o, NoExc, None, <<>>)
    IN  IF Raised(fi) THEN fi
        ELSE LET rs == require_state(fi.o, <<"initialized">>)
             IN  IF rs # NoExc THEN Frame(fi.o, rs, None, fi.calls)
                 ELSE LET c == Append(fi.calls,
                                      Call("ceph_mount", fi.o.handle, rmount))
                      IN  IF rmount # 0
                          THEN Frame(fi.o, make_ex(rmount, "error calling ceph_mount"),
                                     None, c)
                          ELSE Frame(Obj("mounted", fi.o.handle, fi.o.nshut),
                                     NoExc, None, c)

----------------------------------------------------------------------------
(* Configuration methods *)

conf_read_file(o, conffile, ret) ==
    IF conffile # NoneV /\ ~isinstance_str(conffile)
    THEN TypeError(o, "conffile param must be a string")
    ELSE LET c == <<Call("ceph_conf_read_file", o.handle, ret)>>
         IN  IF ret # 0
             THEN Frame(o, make_ex(ret, "error calling conf_read_file"), None, c)
             ELSE Frame(o, NoExc, None, c)

conf_parse_argv(o, argv, ret) ==
    LET rs == require_state(o, <<"configuring">>)
    IN  IF rs # NoExc THEN Frame(o, rs, None, <<>>)
        ELSE IF ~len_ok(argv)
        THEN TypeError(o, "object of type '" \o argv.kind \o "' has no len()")
        ELSE LET c == <<Call("ceph_conf_parse_argv", o.handle, ret)>>
             IN  IF ret # 0
                 THEN Frame(o, make_ex(ret, "error calling conf_parse_argv"), None, c)
                 ELSE Frame(o, NoExc, None, c)

(* The native ceph_conf_get as the loop sees it: -ENAMETOOLONG while the   *)
(* buffer is shorter than need, and fin once it is long enough.            *)
ceph_conf_get(length, need, fin) ==
    IF length < need THEN 0 - ENAMETOOLONG ELSE fin


(* The retry loop growing the buffer by 20 instead of doubling it. *)
RECURSIVE conf_get_loop_linear(_, _, _, _, _)
conf_get_loop_linear(o, length, need, fin, calls) ==
    LET ret == ceph_conf_get(length, need, fin)
        c == Append(calls, CallA("ceph_conf_get", o.handle, ret, "ret_buf", length))
    IN  IF ret = 0 THEN Frame(o, NoExc, RetV("str", <<>>), c)
        ELSE IF ret = 0 - ENAMETOOLONG
        THEN conf_get_loop_linear(o, length + 20, need, fin, c)
        ELSE IF ret = 0 - ENOENT THEN Frame(o, NoExc, None, c)
        ELSE Frame(o, make_ex(ret, "error calling conf_get"), None, c)

RECURSIVE conf_get_loop(_, _, _, _, _)
conf_get_loop(o, length, need, fin, calls) ==
    LET ret == ceph_conf_get(length, need, fin)
        c == Append(calls, CallA("ceph_conf_get", o.handle, ret, "ret_buf", length))
    IN  IF ret = 0 THEN Frame(o, NoExc, RetV("str", <<>>), c)
        ELSE IF ret = 0 - ENAMETOOLONG
        THEN conf_get_loop(o, length * 2, need, fin, c)
        ELSE IF ret = 0 - ENOENT THEN Frame(o, NoExc, None, c)
        ELSE Frame(o, make_ex(ret, "error calling conf_get"), None, c)


(* conf_get without its require_state call. *)
conf_get_unchecked(o, option, need, fin) ==
    IF o.state = "unset" THEN Frame(o, require_state(o, <<>>), None, <<>>)
    ELSE IF ~isinstance_str(option)
    THEN TypeError(o, "option must be a string")
    ELSE conf_get_loop(o, 20, need, fin, <<>>)

conf_get(o, option, need, fin) ==
    LET rs == require_state(o, <<"configuring", "initialized", "mounted">>)
    IN  IF rs # NoExc THEN Frame(o, rs, None, <<>>)
        ELSE IF ~isinstance_str(option)
        THEN TypeError(o, "option must be a string")
        ELSE conf_get_loop(o, 20, need, fin, <<>>)

conf_set(o, option, val, ret) ==
    LET rs == require_state(o, <<"configuring", "initialized", "mounted">>)
    IN  IF rs # NoExc THEN Frame(o, rs, None, <<>>)
        ELSE IF ~isinstance_str(option)
        THEN TypeError(o, "option must be a string")
        ELSE IF ~isinstance_str(val)
        THEN TypeError(o, "val must be a string")
        ELSE LET c == <<Call("ceph_conf_set", o.handle, ret)>>
             IN  IF ret # 0
                 THEN Frame(o, make_ex(ret, "error calling conf_set"), None, c)
                 ELSE Frame(o, NoExc, None, c)

version(o) ==
    Frame(o, NoExc, RetV("tuple", <<0, 0, 0>>), <<Call("ceph_version", "none", 0)>>)

----------------------------------------------------------------------------
(* Filesystem methods.  Each ends the same way: one native call, whose     *)
(* negative return is raised through make_ex.                              *)


(* The shared ending without the test of ret: a failure is not raised. *)
NativeOp_unchecked(o, fn, ret, msg, okret) ==
    Frame(o, NoExc, okret, <<Call(fn, o.handle, ret)>>)


(* The shared ending with the session marked shut down when the call fails. *)
NativeOp_shutdown_on_error(o, fn, ret, msg, okret) ==
    LET c == <<Call(fn, o.handle, ret)>>
    IN  IF ret < 0
        THEN Frame(Obj("shutdown", o.handle, o.nshut), make_ex(ret, msg), None, c)
        ELSE Frame(o, NoExc, okret, c)

NativeOp(o, fn, ret, msg, okret) ==
    LET c == <<Call(fn, o.handle, ret)>>
    IN  IF ret < 0
        THEN Frame(o, make_ex(ret, msg), None, c)
        ELSE Frame(o, NoExc, okret, c)

CtypesError(o, v) ==
    TypeError(o, "wrong type: " \o v.kind)

statfs(o, path, ret) ==
    LET rs == require_state(o, <<"mounted">>)
    IN  IF rs # NoExc THEN Frame(o, rs, None, <<>>)
        ELSE IF ~c_char_p_ok(path) THEN CtypesError(o, path)
        ELSE NativeOp(o, "ceph_statfs", ret, "statfs failed: " \o path.repr,
                      RetV("dict", <<>>))

sync_fs(o, ret) ==
    LET rs == require_state(o, <<"mounted">>)
    IN  IF rs # NoExc THEN Frame(o, rs, None, <<>>)
        ELSE NativeOp(o, "ceph_sync_fs", ret, "sync_fs failed", None)

getcwd(o, ret) ==
    LET rs == require_state(o, <<"mounted">>)
    IN  IF rs # NoExc THEN Frame(o, rs, None, <<>>)
        ELSE Frame(o, NoExc, RetV("int", <<ret>>),
                   <<Call("ceph_getcwd", o.handle, ret)>>)

chdir(o, path, ret) ==
    LET rs == require_state(o, <<"mounted">>)
    IN  IF rs # NoExc THEN Frame(o, rs, None, <<>>)
        ELSE IF ~c_char_p_ok(path) THEN CtypesError(o, path)
        ELSE NativeOp(o, "ceph_chdir", ret, "chdir failed", None)

mkdir(o, path, mode, ret) ==
    LET rs == require_state(o, <<"mounted">>)
    IN  IF rs # NoExc THEN Frame(o, rs, None, <<>>)
        ELSE IF ~isinstance_str(path) THEN TypeError(o, "path must be a string")
        ELSE IF ~c_int_ok(mode) THEN CtypesError(o, mode)
        ELSE NativeOp(o, "ceph_mkdir", ret, "error in mkdir '" \o path.repr \o "'",
                      None)

mkdirs(o, path, mode, ret) ==
    LET rs == require_state(o, <<"mounted">>)
    IN  IF rs # NoExc THEN Frame(o, rs, None, <<>>)
        ELSE IF ~isinstance_str(path) THEN TypeError(o, "path must be a string")
        ELSE IF ~isinstance_int(mode) THEN TypeError(o, "mode must be an int")
        ELSE NativeOp(o, "ceph_mkdir", ret, "error in mkdirs '" \o path.repr \o "'",
                      None)

open(o, path, flags, mode, ret) ==
    LET rs == require_state(o, <<"mounted">>)
    IN  IF rs # NoExc THEN Frame(o, rs, None, <<>>)
        ELSE IF ~isinstance_str(path) THEN TypeError(o, "path must be a string")
        ELSE IF ~isinstance_int(mode) THEN TypeError(o, "mode must be an int")
        ELSE IF ~isinstance_int(flags) THEN TypeError(o, "flags must be an int")
        ELSE NativeOp(o, "ceph_open", ret, "error in open '" \o path.repr \o "'",
                      RetV("int", <<ret>>))

close(o, fd, ret) ==
    LET rs == require_state(o, <<"mounted">>)
    IN  IF rs # NoExc THEN Frame(o, rs, None, <<>>)
        ELSE IF ~c_int_ok(fd) THEN CtypesError(o, fd)
        ELSE NativeOp(o, "ceph_close", ret, "error in close", None)

setxattr(o, path, name, value, flags, ret) ==
    IF ~isinstance_str(path) THEN TypeError(o, "path must be a string")
    ELSE IF ~isinstance_str(name) THEN TypeError(o, "name must be a string")
    ELSE IF ~isinstance_str(value) THEN TypeError(o, "value must be a string")
    ELSE LET rs == require_state(o, <<"mounted">>)
         IN  IF rs # NoExc THEN Frame(o, rs, None, <<>>)
             ELSE IF ~c_int_ok(flags) THEN CtypesError(o, flags)
             ELSE NativeOp(o, "ceph_setxattr", ret, "error in setxattr", None)


(* stat without the isinstance test of path: the value goes to c_char_p. *)
stat_untyped(o, path, ret) ==
    LET rs == require_state(o, <<"mounted">>)
    IN  IF rs # NoExc THEN Frame(o, rs, None, <<>>)
        ELSE IF ~c_char_p_ok(path) THEN CtypesError(o, path)
        ELSE NativeOp(o, "ceph_stat", ret, "error in stat: " \o path.repr,
                      RetV("dict", <<>>))

stat(o, path, ret) ==
    LET rs == require_state(o, <<"mounted">>)
    IN  IF rs # NoExc THEN Frame(o, rs, None, <<>>)
        ELSE IF ~isinstance_str(path) THEN TypeError(o, "path must be a string")
        ELSE NativeOp(o, "ceph_stat", ret, "error in stat: " \o path.repr,
                      RetV("dict", <<>>))

unlink(o, path, ret) ==
    LET rs == require_state(o, <<"mounted">>)
    IN  IF rs # NoExc THEN Frame(o, rs, None, <<>>)
        ELSE IF ~c_char_p_ok(path) THEN CtypesError(o, path)
        ELSE NativeOp(o, "ceph_unlink", ret, "error in unlink: " \o path.repr,
                      None)

----------------------------------------------------------------------------
(* mds_command.  The native call allocates the two output buffers and      *)
(* reports their lengths; the wrapper slices them through the pointers and *)
(* frees the non-empty ones.  Reading through a pointer to a freed buffer  *)
(* is undefined: the read finds the old bytes still there ("stale") or     *)
(* finds them overwritten ("scribbled"), as the argument garbage says.     *)

Bytes == {97}

ByteSeqs == UNION {[1..n -> Bytes] : n \in 0..MaxBufLen}

NativeBuf(data) == [data |-> data, freed |-> FALSE]

Garbage == {"stale", "scribbled"}

PtrSlice(buf, n, garbage) ==
    IF buf.freed /\ garbage = "scribbled"
    THEN [i \in 1..n |-> 0]
    ELSE SubSeq(buf.data, 1, n)

ceph_buffer_free(m, name) ==
    [heap |-> [m.heap EXCEPT ![name].freed = TRUE],
     calls |-> Append(m.calls, CallA("ceph_buffer_free", "none", 0, name, 0))]


(* The ending of mds_command with the frees under a test of ret. *)
mds_outputs_free_on_success(o, ret, outbufp, outsp, outbuflen, outslen, g1, g2) ==
    LET m0 == [heap |-> [outbuf |-> outbufp, outs |-> outsp],
               calls |-> <<Call("ceph_mds_command", o.handle, ret)>>]
        my_outbuf == PtrSlice(m0.heap.outbuf, outbuflen, g1)
        my_outs == PtrSlice(m0.heap.outs, outslen, g2)
        m1 == IF ret = 0 /\ outbuflen # 0 THEN ceph_buffer_free(m0, "outbuf") ELSE m0
        m2 == IF ret = 0 /\ outslen # 0 THEN ceph_buffer_free(m1, "outs") ELSE m1
    IN  Frame(o, NoExc, RetV("tuple", <<ret, my_outbuf, my_outs>>), m2.calls)

(* The ending of mds_command with the frees moved above the slices. *)
mds_outputs_free_first(o, ret, outbufp, outsp, outbuflen, outslen, g1, g2) ==
    LET m0 == [heap |-> [outbuf |-> outbufp, outs |-> outsp],
               calls |-> <<Call("ceph_mds_command", o.handle, ret)>>]
        m1 == IF outbuflen # 0 THEN ceph_buffer_free(m0, "outbuf") ELSE m0
        m2 == IF outslen # 0 THEN ceph_buffer_free(m1, "outs") ELSE m1
        my_outbuf == PtrSlice(m2.heap.outbuf, outbuflen, g1)
        my_outs == PtrSlice(m2.heap.outs, outslen, g2)
    IN  Frame(o, NoExc, RetV("tuple", <<ret, my_outbuf, my_outs>>), m2.calls)

(* The native call, then lines 397-404: slice both buffers through their   *)
(* pointers, free the non-empty ones, return the triple.                   *)
mds_outputs(o, ret, outbufp, outsp, outbuflen, outslen, g1, g2) ==
    LET m0 == [heap |-> [outbuf |-> outbufp, outs |-> outsp],
               calls |-> <<Call("ceph_mds_command", o.handle, ret)>>]
        my_outbuf == PtrSlice(m0.heap.outbuf, outbuflen, g1)
        my_outs == PtrSlice(m0.heap.outs, outslen, g2)
        m1 == IF outbuflen # 0 THEN ceph_buffer_free(m0, "outbuf") ELSE m0
        m2 == IF outslen # 0 THEN ceph_buffer_free(m1, "outs") ELSE m1
    IN  Frame(o, NoExc, RetV("tuple", <<ret, my_outbuf, my_outs>>), m2.calls)

mds_command(o, mds_spec, args, input_data, ret, outbuf, outs, g1, g2) ==
    IF ~len_ok(args)
    THEN TypeError(o, "object of type '" \o args.kind \o "' has no len()")
    ELSE IF ~c_char_p_ok(mds_spec) THEN CtypesError(o, mds_spec)
    ELSE IF ~c_char_p_ok(input_data) THEN CtypesError(o, input_data)
    ELSE IF ~len_ok(input_data)
    THEN TypeError(o, "object of type '" \o input_data.kind \o "' has no len()")
    ELSE mds_outputs(o, ret, NativeBuf(outbuf), NativeBuf(outs),
                     Len(outbuf), Len(outs), g1, g2)

----------------------------------------------------------------------------
(* Construction *)

load_libcephfs(found, loads) ==
    IF found
    THEN IF loads THEN NoExc ELSE Exc("OSError", "cannot open shared object file")
    ELSE IF loads THEN NoExc
         ELSE Exc("EnvironmentError",
                  "Unable to load libcephfs: cannot open shared object file")

(* The constructor's conf argument: absent, or the (key, value) pairs in   *)
(* the order iteritems() yields them.                                      *)
NoConf == [given |-> FALSE, items |-> <<>>]
Conf(items) == [given |-> TRUE, items |-> items]

ConfItems == {<<StrV, StrV>>, <<IntV, StrV>>, <<StrV, IntV>>}
ConfSetRets == {0 - MaxCode, 0 - EPERM, 0, 1}


(* The loop over conf.iteritems() with a failing conf_set only remembered: *)
(* the remaining options are still applied and the first error is raised   *)
(* at the end.                                                             *)
RECURSIVE apply_conf_keep_going(_, _, _, _)
apply_conf_keep_going(o, items, rets, calls) ==
    IF items = <<>> THEN Frame(o, NoExc, None, calls)
    ELSE LET f == conf_set(o, Head(items)[1], Head(items)[2], Head(rets))
             g == apply_conf_keep_going(f.o, Tail(items), Tail(rets),
                                        calls \o f.calls)
         IN  IF Raised(f) THEN Frame(g.o, f.exc, None, g.calls) ELSE g

RECURSIVE apply_conf(_, _, _, _)
apply_conf(o, items, rets, calls) ==
    IF items = <<>> THEN Frame(o, NoExc, None, calls)
    ELSE LET f == conf_set(o, Head(items)[1], Head(items)[2], Head(rets))
         IN  IF Raised(f) THEN Frame(f.o, f.exc, None, calls \o f.calls)
             ELSE apply_conf(f.o, Tail(items), Tail(rets), calls \o f.calls)

__init__(found, loads, conf, conffile, rcreate, rread, rsets) ==
    LET o0 == Obj("unset", "null", 0)
        ld == load_libcephfs(found, loads)
    IN  IF ld # NoExc THEN Frame(o0, ld, None, <<>>)
        ELSE IF conffile # NoneV /\ ~isinstance_str(conffile)
        THEN TypeError(o0, "conffile must be a string or None")
        ELSE LET c0 == <<Call("ceph_create", o0.handle, rcreate)>>
             IN  IF rcreate # 0
                 THEN Frame(o0, Exc("Error", "libcephfs_initialize failed with error code: "
                                             \o ToString(rcreate)), None, c0)
                 ELSE LET o1 == Obj("configuring", "live", 0)
                          f1 == IF conffile # NoneV
                                THEN conf_read_file(o1, IF conffile = EmptyStrV
                                                        THEN NoneV ELSE conffile, rread)
                                ELSE Frame(o1, NoExc, None, <<>>)
                      IN  IF Raised(f1) THEN Frame(f1.o, f1.exc, None, c0 \o f1.calls)
                          ELSE IF conf.given
                          THEN apply_conf(f1.o, conf.items, rsets, c0 \o f1.calls)
                          ELSE Frame(f1.o, NoExc, None, c0 \o f1.calls)

__enter__(o, rinit, rmount) ==
    LET f == mount(o, rinit, rmount)
    IN  IF Raised(f) THEN f ELSE Frame(f.o, NoExc, RetV("LibCephFS", <<>>), f.calls)


(* The value False, which __exit__ returns: the exception of the with body *)
(* is not suppressed.                                                      *)
False == RetV("bool", <<0>>)


(* __exit__ that only returns False, leaving the shutdown to __del__. *)
__exit___no_shutdown(o) ==
    IF o.state = "unset" THEN Frame(o, require_state(o, <<>>), None, <<>>)
    ELSE Frame(o, NoExc, False, <<>>)

__exit__(o) ==
    LET f == shutdown(o)
    IN  IF Raised(f) THEN f ELSE Frame(f.o, NoExc, False, f.calls)

__del__(o) == shutdown(o)

----------------------------------------------------------------------------
(* The state machine *)

IntVal(n) == [kind |-> "int", repr |-> ToString(n)]
StrVal(m) == [kind |-> "str", repr |-> m]

Msgs == {"", "error calling ceph_init"}

(* What the native stub was set to do in an invocation: the status and the *)
(* output buffers of ceph_mds_command, the value length and final return   *)
(* of ceph_conf_get.                                                       *)
NoNative == [ret |-> 0, outbuf |-> <<>>, outs |-> <<>>, need |-> 0]

Cur == Obj(state, handle, nshut)

Invocation(op, pre, args, f, nat) ==
    [op |-> op, pre |-> pre, args |-> args, exc |-> f.exc, ret |-> f.ret,
     calls |-> f.calls, native |-> nat]

Do(op, args, f, nat) ==
    /\ state' = f.o.state
    /\ handle' = f.o.handle
    /\ nshut' = f.o.nshut
    /\ last' = Invocation(op, state, args, f, nat)
    /\ UNCHANGED <<held, pc>>

RECURSIVE Flatten(_)
Flatten(items) ==
    IF items = <<>> THEN <<>> ELSE Head(items) \o Flatten(Tail(items))

ConfArgs == {NoConf} \cup
            {Conf(items) : items \in UNION {[1..n -> ConfItems] : n \in 0..MaxConf}}

Threads == {"t1", "t2"}

Idle == [t \in Threads |-> "idle"]

Constructed(conffile, conf, f) ==
    /\ pc = Idle
    /\ state = f.o.state
    /\ handle = f.o.handle
    /\ nshut = f.o.nshut
    /\ held = ~Raised(f)
    /\ last = Invocation("__init__", "unset",
                          <<conffile>> \o Flatten(conf.items), f, NoNative)

(* The library's answers are drawn only for the calls the constructor makes. *)
Init ==
    \E found \in BOOLEAN, loads \in BOOLEAN, conf \in ConfArgs,
       conffile \in {NoneV, StrV, EmptyStrV, IntV} :
      LET ok == [i \in 1..Len(conf.items) |-> 0]
          f0 == __init__(found, loads, conf, conffile, 0, 0, ok)
      IN  IF f0.calls = <<>> THEN Constructed(conffile, conf, f0)
          ELSE \E rcreate \in NativeRets, rread \in NativeRets :
                 LET f1 == __init__(found, loads, conf, conffile, rcreate, rread, ok)
                 IN  IF \A i \in 1..Len(f1.calls) : f1.calls[i].fn # "ceph_conf_set"
                     THEN Constructed(conffile, conf, f1)
                     ELSE \E rsets \in [1..Len(conf.items) -> ConfSetRets] :
                            Constructed(conffile, conf,
                                        __init__(found, loads, conf, conffile,
                                                 rcreate, rread, rsets))

MakeEx ==
    \E r \in Codes, m \in Msgs :
        /\ last' = [op |-> "make_ex", pre |-> state,
                    args |-> <<IntVal(r), StrVal(m)>>, exc |-> make_ex(r, m),
                    ret |-> RetV("exception", <<>>), calls |-> <<>>,
                    native |-> NoNative]
        /\ UNCHANGED <<state, handle, nshut, held, pc>>

Shutdown ==
    /\ held /\ nshut < MaxShutdownCalls
    /\ Do("shutdown", <<>>, shutdown(Cur), NoNative)

Exit ==
    /\ held /\ nshut < MaxShutdownCalls
    /\ Do("__exit__", <<>>, __exit__(Cur), NoNative)

Del ==
    /\ nshut < MaxShutdownCalls
    /\ Do("__del__", <<>>, __del__(Cur), NoNative)

InitOp ==
    /\ held
    /\ \E ret \in NativeRets : Do("init", <<>>, init(Cur, ret), NoNative)

Mount ==
    /\ held
    /\ \E rinit \in NativeRets, rmount \in NativeRets :
          Do("mount", <<>>, mount(Cur, rinit, rmount), NoNative)

Enter ==
    /\ held
    /\ \E rinit \in NativeRets, rmount \in NativeRets :
          Do("__enter__", <<>>, __enter__(Cur, rinit, rmount), NoNative)

ConfReadFile ==
    /\ held
    /\ \E conffile \in {StrV, NoneV, IntV}, ret \in NativeRets :
          Do("conf_read_file", <<conffile>>, conf_read_file(Cur, conffile, ret),
             NoNative)

ConfParseArgv ==
    /\ held
    /\ \E argv \in SeqArgs, ret \in NativeRets :
          Do("conf_parse_argv", <<argv>>, conf_parse_argv(Cur, argv, ret), NoNative)

ConfGet ==
    /\ held
    /\ \E option \in StrArgs :
          LET f0 == conf_get(Cur, option, 0, 0)
          IN  IF f0.calls = <<>> THEN Do("conf_get", <<option>>, f0, NoNative)
              ELSE \E need \in 0..MaxValLen,
                      fin \in NativeRets \ {0 - ENAMETOOLONG} :
                     Do("conf_get", <<option>>, conf_get(Cur, option, need, fin),
                        [NoNative EXCEPT !.ret = fin, !.need = need])

ConfSet ==
    /\ held
    /\ \E option \in StrArgs, val \in StrArgs, ret \in NativeRets :
          Do("conf_set", <<option, val>>, conf_set(Cur, option, val, ret), NoNative)

Version ==
    /\ held
    /\ Do("version", <<>>, version(Cur), NoNative)

Statfs ==
    /\ held
    /\ \E path \in PtrArgs, ret \in NativeRets :
          Do("statfs", <<path>>, statfs(Cur, path, ret), NoNative)

SyncFs ==
    /\ held
    /\ \E ret \in NativeRets : Do("sync_fs", <<>>, sync_fs(Cur, ret), NoNative)

Getcwd ==
    /\ held
    /\ \E ret \in NativeRets : Do("getcwd", <<>>, getcwd(Cur, ret), NoNative)

Chdir ==
    /\ held
    /\ \E path \in PtrArgs, ret \in NativeRets :
          Do("chdir", <<path>>, chdir(Cur, path, ret), NoNative)

Mkdir ==
    /\ held
    /\ \E path \in StrArgs, mode \in IntArgs, ret \in NativeRets :
          Do("mkdir", <<path, mode>>, mkdir(Cur, path, mode, ret), NoNative)

Mkdirs ==
    /\ held
    /\ \E path \in StrArgs, mode \in IntArgs, ret \in NativeRets :
          Do("mkdirs", <<path, mode>>, mkdirs(Cur, path, mode, ret), NoNative)

Open ==
    /\ held
    /\ \E path \in StrArgs, flags \in IntArgs, mode \in IntArgs,
          ret \in NativeRets :
          Do("open", <<path, flags, mode>>, open(Cur, path, flags, mode, ret),
             NoNative)

Close ==
    /\ held
    /\ \E fd \in IntArgs, ret \in NativeRets :
          Do("close", <<fd>>, close(Cur, fd, ret), NoNative)

Setxattr ==
    /\ held
    /\ \E path \in StrArgs, name \in StrArgs, value \in StrArgs,
          flags \in IntArgs, ret \in NativeRets :
          Do("setxattr", <<path, name, value, flags>>,
             setxattr(Cur, path, name, value, flags, ret), NoNative)

Stat ==
    /\ held
    /\ \E path \in StrArgs, ret \in NativeRets :
          Do("stat", <<path>>, stat(Cur, path, ret), NoNative)

Unlink ==
    /\ held
    /\ \E path \in PtrArgs, ret \in NativeRets :
          Do("unlink", <<path>>, unlink(Cur, path, ret), NoNative)

MdsCommand ==
    /\ held
    /\ \E mds_spec \in {StrV, FloatV}, args \in SeqArgs,
          input_data \in {StrV, IntV, FloatV} :
          LET f0 == mds_command(Cur, mds_spec, args, input_data, 0, <<>>, <<>>,
                                "stale", "stale")
          IN  IF f0.calls = <<>>
              THEN Do("mds_command", <<mds_spec, args, input_data>>, f0, NoNative)
              ELSE \E ret \in NativeRets, outbuf \in ByteSeqs, outs \in ByteSeqs,
                      g1 \in Garbage, g2 \in Garbage :
                     Do("mds_command", <<mds_spec, args, input_data>>,
                        mds_command(Cur, mds_spec, args, input_data, ret, outbuf,
                                    outs, g1, g2),
                        [ret |-> ret, outbuf |-> outbuf, outs |-> outs, need |-> 0])

Next ==
    \/ MakeEx
    \/ Shutdown \/ Exit \/ Del \/ InitOp \/ Mount \/ Enter
    \/ ConfReadFile \/ ConfParseArgv \/ ConfGet \/ ConfSet \/ Version
    \/ Statfs \/ SyncFs \/ Getcwd \/ Chdir \/ Mkdir \/ Mkdirs \/ Open
    \/ Close \/ Setxattr \/ Stat \/ Unlink \/ MdsCommand

Spec == Init /\ [][Next]_vars

----------------------------------------------------------------------------
(* Two threads on one session.  Each thread calls mount() or shutdown()    *)
(* once.  A step is one statement: a test of self.state, a native call     *)
(* together with the test of its return value, or an assignment to         *)
(* self.state.  ctypes releases the interpreter lock around every native   *)
(* call, so another thread can run between any two of these statements.    *)
(* pc[t] is "idle" before the call, the name of the next statement during  *)
(* it, and "done" or "raised" after it.                                    *)

(* shutdown that tests self.state again at the native call. *)
shutdown_call_rechecked(o) ==
    IF o.state # "shutdown" THEN Obj(o.state, "destroyed", o.nshut + 1) ELSE o

shutdown_call(o) == Obj(o.state, "destroyed", o.nshut + 1)

shutdown_store(o) == Obj("shutdown", o.handle, o.nshut)

init_store(o) == Obj("initialized", o.handle, o.nshut)

mount_store(o) == Obj("mounted", o.handle, o.nshut)

Step(t, label, o) ==
    /\ pc' = [pc EXCEPT ![t] = label]
    /\ state' = o.state
    /\ handle' = o.handle
    /\ nshut' = o.nshut
    /\ UNCHANGED <<held, last>>

ThreadInit == Init /\ held

ShutdownTest(t) ==
    /\ pc[t] = "idle"
    /\ Step(t, IF state # "shutdown" THEN "shutdown_call" ELSE "done", Cur)

ShutdownCall(t) ==
    /\ pc[t] = "shutdown_call"
    /\ Step(t, "shutdown_store", shutdown_call(Cur))

ShutdownStore(t) ==
    /\ pc[t] = "shutdown_store"
    /\ Step(t, "done", shutdown_store(Cur))

MountTest(t) ==
    /\ pc[t] = "idle"
    /\ Step(t, IF state = "configuring" THEN "init_check" ELSE "mount_check", Cur)

InitCheck(t) ==
    /\ pc[t] = "init_check"
    /\ Step(t, IF require_state(Cur, <<"configuring">>) = NoExc
               THEN "init_call" ELSE "raised", Cur)

InitCall(t) ==
    /\ pc[t] = "init_call"
    /\ \E ret \in NativeRets :
          Step(t, IF ret # 0 THEN "raised" ELSE "init_store", Cur)

InitStore(t) ==
    /\ pc[t] = "init_store"
    /\ Step(t, "mount_check", init_store(Cur))

MountCheck(t) ==
    /\ pc[t] = "mount_check"
    /\ Step(t, IF require_state(Cur, <<"initialized">>) = NoExc
               THEN "mount_call" ELSE "raised", Cur)

MountCall(t) ==
    /\ pc[t] = "mount_call"
    /\ \E ret \in NativeRets :
          Step(t, IF ret # 0 THEN "raised" ELSE "mount_store", Cur)

MountStore(t) ==
    /\ pc[t] = "mount_store"
    /\ Step(t, "done", mount_store(Cur))

ThreadNext ==
    \E t \in Threads :
        \/ ShutdownTest(t) \/ ShutdownCall(t) \/ ShutdownStore(t)
        \/ MountTest(t) \/ InitCheck(t) \/ InitCall(t) \/ InitStore(t)
        \/ MountCheck(t) \/ MountCall(t) \/ MountStore(t)

ThreadSpec == ThreadInit /\ [][ThreadNext]_vars

----------------------------------------------------------------------------
(* Properties *)

FsOps == {"statfs", "sync_fs", "getcwd", "chdir", "mkdir", "mkdirs", "open",
          "close", "setxattr", "stat", "unlink"}

NotMounted == {"configuring", "initialized", "shutdown"}

Kinds(args) == [i \in 1..Len(args) |-> args[i].kind]

(* The argument types each filesystem method is documented to take. *)
WellTyped(op, args) ==
    CASE op \in {"statfs", "chdir", "unlink", "stat"} -> Kinds(args) = <<"str">>
      [] op \in {"sync_fs", "getcwd"} -> args = <<>>
      [] op \in {"mkdir", "mkdirs"} -> Kinds(args) = <<"str", "int">>
      [] op = "open" -> Kinds(args) = <<"str", "int", "int">>
      [] op = "close" -> Kinds(args) = <<"int">>
      [] op = "setxattr" -> Kinds(args) = <<"str", "str", "str", "int">>
      [] op = "mds_command" -> Kinds(args) = <<"str", "list", "str">>
      [] OTHER -> FALSE

(* The error kind the translation table assigns to a native code. *)
KindOfCode(r) ==
    CASE Abs(r) = 1 -> "PermissionError"
      [] Abs(r) = 2 -> "ObjectNotFound"
      [] Abs(r) = 5 -> "IOError"
      [] Abs(r) = 28 -> "NoSpace"
      [] Abs(r) = 17 -> "ObjectExists"
      [] Abs(r) = 61 -> "NoData"
      [] OTHER -> "Error"

(* C1: a filesystem operation invoked with well-typed arguments in a state *)
(* other than mounted fails with LibCephFSStateError and makes no native   *)
(* call.                                                                   *)
C1_FsOpsRequireMounted ==
    (last.op \in FsOps /\ last.pre \in NotMounted /\ WellTyped(last.op, last.args))
        => (last.exc.kind = "LibCephFSStateError" /\ last.calls = <<>>)

C1_Witness ==
    /\ last.op = "stat" /\ last.pre = "configuring" /\ last.args = <<StrV>>
    /\ last.exc.kind = "LibCephFSStateError"

(* C3: native ceph_shutdown is called at most once on a session, and a     *)
(* shutdown(), __exit__ or __del__ that finds the state already shutdown   *)
(* makes no native call and raises nothing.                                *)
C3_ShutdownAtMostOnce ==
    /\ nshut <= 1
    /\ Cardinality({i \in 1..Len(last.calls) : last.calls[i].fn = "ceph_shutdown"}) <= 1
    /\ (last.op \in {"shutdown", "__exit__", "__del__"} /\ last.pre = "shutdown")
          => (last.calls = <<>> /\ last.exc = NoExc /\ state = "shutdown")

C3_Witness ==
    last.op = "shutdown" /\ last.pre = "shutdown" /\ nshut = 1

(* C4: mount() in state configuring calls native init first; the state     *)
(* ends mounted iff native init and native mount both return 0; a failed   *)
(* init leaves configuring and skips native mount; a failed mount after a  *)
(* successful init leaves initialized.                                     *)
C4_MountFromConfiguring ==
    (last.op = "mount" /\ last.pre = "configuring") =>
        LET c == last.calls
        IN  /\ Len(c) >= 1 /\ c[1].fn = "ceph_init"
            /\ \A i \in 2..Len(c) : c[i].fn = "ceph_mount"
            /\ state = "mounted" <=>
                   (Len(c) = 2 /\ c[1].ret = 0 /\ c[2].ret = 0)
            /\ c[1].ret # 0 => (state = "configuring" /\ Len(c) = 1)
            /\ c[1].ret = 0 => (Len(c) = 2 /\ (c[2].ret # 0 => state = "initialized"))

C4_Witness ==
    /\ last.op = "mount" /\ last.pre = "configuring" /\ state = "initialized"
    /\ Len(last.calls) = 2 /\ last.calls[2].ret # 0

(* C5: init() is accepted only in state configuring; a native return of 0  *)
(* makes the state initialized; any other return raises the translated     *)
(* error and leaves the state configuring.                                 *)
C5_Init ==
    (last.op = "init") =>
        IF last.pre # "configuring"
        THEN last.exc.kind = "LibCephFSStateError" /\ last.calls = <<>>
             /\ state = last.pre
        ELSE /\ Len(last.calls) = 1 /\ last.calls[1].fn = "ceph_init"
             /\ last.calls[1].ret = 0 => (state = "initialized" /\ last.exc = NoExc)
             /\ last.calls[1].ret # 0 =>
                    /\ state = "configuring"
                    /\ last.exc.kind = KindOfCode(last.calls[1].ret)

C5_Witness ==
    /\ last.op = "init" /\ last.pre = "configuring" /\ state = "configuring"
    /\ last.exc.kind = "PermissionError"

(* C2: once shutdown() has destroyed the native handle, no later call of a *)
(* public operation passes the destroyed handle to a native entry point.   *)
C2_NoNativeUseAfterShutdown ==
    \A i \in 1..Len(last.calls) : last.calls[i].h # "destroyed"

(* C6: mds_command invoked with well-typed arguments in a state other than *)
(* mounted fails with LibCephFSStateError and calls neither                *)
(* ceph_mds_command nor ceph_buffer_free.                                  *)
C6_MdsCommandRequiresMounted ==
    (last.op = "mds_command" /\ last.pre \in NotMounted
        /\ WellTyped(last.op, last.args))
        => (last.exc.kind = "LibCephFSStateError" /\ last.calls = <<>>)

FreesOf(name) ==
    Cardinality({i \in 1..Len(last.calls) :
                    last.calls[i].fn = "ceph_buffer_free" /\ last.calls[i].arg = name})

MdsCalled ==
    last.op = "mds_command" /\ last.calls # <<>>

(* C7: whatever the native mds_command call returns, mds_command makes     *)
(* exactly one ceph_buffer_free call for each output buffer of non-zero    *)
(* reported length and none for a buffer of length zero.                   *)
C7_OneFreePerNonEmptyBuffer ==
    MdsCalled =>
        /\ last.calls[1].fn = "ceph_mds_command"
        /\ FreesOf("outbuf") = (IF Len(last.native.outbuf) # 0 THEN 1 ELSE 0)
        /\ FreesOf("outs") = (IF Len(last.native.outs) # 0 THEN 1 ELSE 0)
        /\ Len(last.calls) = 1 + FreesOf("outbuf") + FreesOf("outs")

C7_Witness ==
    /\ MdsCalled /\ last.native.ret # 0
    /\ last.native.outbuf # <<>> /\ last.native.outs = <<>>
    /\ FreesOf("outbuf") = 1 /\ FreesOf("outs") = 0

C9_MakeExTotalExact ==
    (last.op = "make_ex") =>
        \A r \in Codes, m \in Msgs :
            (last.args = <<IntVal(r), StrVal(m)>>) =>
                /\ last.exc.kind = KindOfCode(r)
                /\ last.exc.kind \in ErrorKinds
                /\ last.exc.msg = IF KindOfCode(r) = "Error"
                                  THEN m \o ": error code " \o ToString(Abs(r))
                                  ELSE m

C9_Witness ==
    /\ last.op = "make_ex" /\ last.args[1] = IntVal(0 - 61)
    /\ last.exc.kind = "NoData"

(* Native entry points by how their return value reports failure. *)
FailsNonZero == {"ceph_create", "ceph_conf_read_file", "ceph_conf_parse_argv",
                 "ceph_conf_get", "ceph_conf_set", "ceph_init", "ceph_mount",
                 "ceph_mds_command"}
FailsNegative == {"ceph_statfs", "ceph_sync_fs", "ceph_chdir", "ceph_mkdir",
                  "ceph_open", "ceph_close", "ceph_setxattr", "ceph_stat",
                  "ceph_unlink"}

Failed(c) ==
    \/ c.fn \in FailsNonZero /\ c.ret # 0
    \/ c.fn \in FailsNegative /\ c.ret < 0

(* C10 as stated: every native call whose return value indicates failure   *)
(* is raised to the caller as the error make_ex gives for that code.       *)
C10_EveryFailureTranslated ==
    \A i \in 1..Len(last.calls) :
        Failed(last.calls[i]) => last.exc.kind = KindOfCode(last.calls[i].ret)

(* C10 amended: every native call whose return value indicates failure is  *)
(* raised as the error make_ex gives for that code, except that a failed   *)
(* ceph_create raises the generic Error with the code in its message,      *)
(* conf_get retries on -ENAMETOOLONG and returns None on -ENOENT, and      *)
(* mds_command returns the native status as the first component of its     *)
(* result.                                                                 *)
C10_FailureTranslatedExcept ==
    \A i \in 1..Len(last.calls) :
        LET c == last.calls[i]
        IN  Failed(c) =>
              CASE c.fn = "ceph_create" ->
                     last.exc = Exc("Error",
                                    "libcephfs_initialize failed with error code: "
                                    \o ToString(c.ret))
                [] c.fn = "ceph_mds_command" ->
                     last.exc = NoExc /\ last.ret.kind = "tuple"
                     /\ last.ret.items[1] = c.ret
                [] c.fn = "ceph_conf_get" /\ c.ret = 0 - ENAMETOOLONG ->
                     i < Len(last.calls) /\ last.calls[i + 1].fn = "ceph_conf_get"
                [] c.fn = "ceph_conf_get" /\ c.ret = 0 - ENOENT ->
                     last.exc = NoExc /\ last.ret = None
                [] OTHER ->
                     i = Len(last.calls) /\ last.exc.kind = KindOfCode(c.ret)

C10_Witness ==
    /\ last.op = "sync_fs" /\ last.calls # <<>> /\ last.calls[1].ret = 0 - EPERM
    /\ last.exc.kind = "PermissionError"

(* The argument types the configuration methods are documented to take. *)
ConfWellTyped(op, args) ==
    CASE op = "conf_read_file" -> Kinds(args) \in {<<"str">>, <<"NoneType">>}
      [] op = "conf_parse_argv" -> Kinds(args) = <<"list">>
      [] op = "conf_get" -> Kinds(args) = <<"str">>
      [] op = "conf_set" -> Kinds(args) = <<"str", "str">>
      [] OTHER -> FALSE

(* C11: conf_read_file and conf_parse_argv invoked in state initialized,   *)
(* mounted or shutdown fail with LibCephFSStateError and make no native    *)
(* call.                                                                   *)
C11_ConfFileArgvOnlyConfiguring ==
    (last.op \in {"conf_read_file", "conf_parse_argv"}
        /\ last.pre \in {"initialized", "mounted", "shutdown"}
        /\ ConfWellTyped(last.op, last.args))
        => (last.exc.kind = "LibCephFSStateError" /\ last.calls = <<>>)

(* C12 as stated: conf_get and conf_set invoked in state mounted or        *)
(* shutdown fail with LibCephFSStateError and make no native call.         *)
C12_ConfGetSetRejectedWhenMounted ==
    (last.op \in {"conf_get", "conf_set"} /\ last.pre \in {"mounted", "shutdown"}
        /\ ConfWellTyped(last.op, last.args))
        => (last.exc.kind = "LibCephFSStateError" /\ last.calls = <<>>)

(* C12 amended: conf_get and conf_set are valid in states configuring,     *)
(* initialized and mounted, where they reach the native library; invoked   *)
(* in state shutdown each fails with LibCephFSStateError and makes no      *)
(* native call.                                                            *)
C12_ConfGetSetRejectedWhenShutdown ==
    (last.op \in {"conf_get", "conf_set"} /\ ConfWellTyped(last.op, last.args)) =>
        /\ last.pre = "shutdown" =>
               (last.exc.kind = "LibCephFSStateError" /\ last.calls = <<>>)
        /\ last.pre \in {"configuring", "initialized", "mounted"} =>
               (last.exc.kind # "LibCephFSStateError" /\ last.calls # <<>>
                /\ last.calls[1].fn = "ceph_" \o last.op)

C12_Witness ==
    /\ last.op = "conf_get" /\ last.pre = "shutdown" /\ last.args = <<StrV>>
    /\ last.exc.kind = "LibCephFSStateError" /\ last.calls = <<>>

CallsOf(fn) == {i \in 1..Len(last.calls) : last.calls[i].fn = fn}

(* The options of the constructor's conf argument, as last.args lists them *)
(* after the conffile.                                                     *)
NumOptions == (Len(last.args) - 1) \div 2
OptionWellTyped(j) ==
    last.args[2 * j].kind = "str" /\ last.args[2 * j + 1].kind = "str"

TypedOps == {"conf_get", "conf_set", "conf_read_file", "mkdir", "mkdirs", "open",
             "setxattr", "stat", "__init__"}

(* Some argument of the invocation is not of the kind the method takes. *)
IllTyped(op, args) ==
    CASE op \in {"conf_get", "stat"} -> args[1].kind # "str"
      [] op = "conf_set" -> Kinds(args) # <<"str", "str">>
      [] op \in {"conf_read_file", "__init__"} ->
             args[1].kind \notin {"str", "NoneType"}
      [] op \in {"mkdir", "mkdirs"} -> Kinds(args) # <<"str", "int">>
      [] op = "open" -> Kinds(args) # <<"str", "int", "int">>
      [] op = "setxattr" -> Kinds(args) # <<"str", "str", "str", "int">>
      [] OTHER -> FALSE

(* The states the require_state call of a method accepts. *)
Accepts(op, s) ==
    CASE op \in {"conf_get", "conf_set"} ->
             s \in {"configuring", "initialized", "mounted"}
      [] op \in FsOps \cup {"mds_command"} -> s = "mounted"
      [] op \in {"conf_parse_argv", "init"} -> s = "configuring"
      [] op \in {"mount", "__enter__"} -> s \in {"configuring", "initialized"}
      [] OTHER -> TRUE

(* C14 as stated: a call of a typed operation with an argument of the      *)
(* wrong kind fails with a type error, makes no native call and leaves the *)
(* state unchanged.                                                        *)
C14_WrongKindIsTypeError ==
    (last.op \in TypedOps /\ IllTyped(last.op, last.args)) =>
        (last.exc.kind = "TypeError" /\ last.calls = <<>> /\ state = last.pre)

(* C14 amended: a call of a typed operation with an argument of the wrong  *)
(* kind makes no native call and leaves the state unchanged; it fails with *)
(* a type error when the state check of the operation accepts the current  *)
(* state (for the constructor: when the library loads), and otherwise with *)
(* the state error (the load error) or a type error.                       *)
C14_WrongKindNoNativeCall ==
    (last.op \in TypedOps /\ IllTyped(last.op, last.args)) =>
        /\ last.calls = <<>> /\ state = last.pre
        /\ last.exc.kind \in
              (IF last.op = "__init__"
               THEN {"TypeError", "OSError", "EnvironmentError"}
               ELSE IF Accepts(last.op, last.pre)
               THEN {"TypeError"}
               ELSE {"TypeError", "LibCephFSStateError"})

C14_Witness ==
    /\ last.op = "stat" /\ last.pre = "mounted" /\ last.args = <<IntV>>
    /\ last.exc.kind = "TypeError" /\ last.calls = <<>> /\ state = "mounted"

(* C15: a session whose native handle was created is shut down by leaving  *)
(* the with block or by finalization, without a call of shutdown():        *)
(* __exit__ and __del__ call native shutdown on the live handle if it has  *)
(* not been called yet, make no native call if it has, leave the state     *)
(* shutdown, and __exit__ returns False so that the exception of the body  *)
(* is not suppressed.                                                      *)
C15_ScopeExitShutsDown ==
    /\ (state = "unset") <=> (handle = "null")
    /\ (handle = "live") <=> (state \in {"configuring", "initialized", "mounted"})
    /\ (last.op \in {"__exit__", "__del__"} /\ last.pre # "unset") =>
          /\ state = "shutdown" /\ handle = "destroyed" /\ nshut = 1
          /\ last.exc = NoExc
          /\ last.pre # "shutdown" =>
                 last.calls = <<Call("ceph_shutdown", "live", 0)>>
          /\ last.pre = "shutdown" => last.calls = <<>>
          /\ last.op = "__exit__" => last.ret = False

C15_Witness ==
    /\ last.op = "__exit__" /\ last.pre = "mounted" /\ state = "shutdown"
    /\ Len(last.calls) = 1 /\ last.ret = False

(* C16: an operation invoked in a state its state check rejects fails with *)
(* LibCephFSStateError even when its arguments are of the wrong kind.      *)
C16_StateCheckComesFirst ==
    (/\ last.op \in FsOps \cup {"conf_get", "conf_set", "conf_parse_argv"}
     /\ last.pre # "unset" /\ ~Accepts(last.op, last.pre)
     /\ ~WellTyped(last.op, last.args) /\ ~ConfWellTyped(last.op, last.args))
        => (last.exc.kind = "LibCephFSStateError" /\ last.calls = <<>>)

(* C17: mds_command returns the 3-tuple (output status int, output status  *)
(* string, output data).                                                   *)
C17_ReturnsStatusStringThenData ==
    MdsCalled =>
        last.ret = RetV("tuple", <<last.native.ret, last.native.outs,
                                   last.native.outbuf>>)

LifecycleStates == {"configuring", "initialized", "mounted", "shutdown"}

(* The state changes one invocation may make.  A mount() from configuring  *)
(* runs init() inside, so it makes the first change, or the first two.     *)
Transition(pre, post, op) ==
    \/ pre = "unset" /\ post = "configuring" /\ op = "__init__"
    \/ pre = "configuring" /\ post = "initialized"
          /\ op \in {"init", "mount", "__enter__"}
    \/ pre \in {"configuring", "initialized"} /\ post = "mounted"
          /\ op \in {"mount", "__enter__"}
    \/ pre \in {"configuring", "initialized", "mounted"} /\ post = "shutdown"
          /\ op \in {"shutdown", "__exit__", "__del__"}

(* C18: the state of a session is one of configuring, initialized, mounted *)
(* and shutdown, and every change of it is configuring -> initialized by   *)
(* init, initialized -> mounted by mount, or a state other than shutdown   *)
(* -> shutdown by shutdown; nothing moves it backwards or out of shutdown. *)
C18_LifecycleMonotone ==
    /\ state \in LifecycleStates \cup {"unset"}
    /\ held => state \in LifecycleStates
    /\ last.pre # state => Transition(last.pre, state, last.op)
    /\ last.pre = "shutdown" => state = "shutdown"

C18_Witness ==
    /\ last.op = "mount" /\ last.pre = "configuring" /\ state = "mounted"

StateChangingOps == {"__init__", "init", "mount", "shutdown", "__enter__",
                     "__exit__", "__del__"}

(* C19: every operation other than init, mount, shutdown, __enter__,       *)
(* __exit__ and __del__ leaves the state as it found it, whether it        *)
(* succeeds, raises a translated native error or is rejected.              *)
C19_OtherOpsKeepState ==
    (last.op \notin StateChangingOps) => state = last.pre

C19_Witness ==
    /\ last.op = "mkdir" /\ last.pre = "mounted" /\ state = "mounted"
    /\ last.exc.kind = "PermissionError" /\ last.calls # <<>>

RECURSIVE Pow2(_)
Pow2(n) == IF n = 0 THEN 1 ELSE 2 * Pow2(n - 1)

(* ceil(log2(L / b)) for L >= 1: the least integer k with b * 2^k >= L. *)
CeilLog2Ratio(L, b) ==
    LET Reaches(k) == IF k >= 0 THEN b * Pow2(k) >= L ELSE b >= L * Pow2(0 - k)
    IN  CHOOSE k \in (0 - 8)..8 : Reaches(k) /\ ~Reaches(k - 1)

Max(a, b) == IF a >= b THEN a ELSE b

ConfGetCalled == last.op = "conf_get" /\ last.calls # <<>>

(* The shape of the retry loop: the first buffer is 20 long, each retry    *)
(* follows a return of -ENAMETOOLONG and doubles the buffer, and the loop  *)
(* ends at the first other return: the value on 0, None on -ENOENT, the    *)
(* translated error otherwise.                                             *)
ConfGetLoopShape ==
    LET c == last.calls
        r == c[Len(c)].ret
    IN  /\ \A i \in 1..Len(c) : c[i].fn = "ceph_conf_get"
        /\ c[1].len = 20
        /\ \A i \in 2..Len(c) : c[i].len = 2 * c[i - 1].len /\ c[i].len > c[i - 1].len
        /\ \A i \in 1..(Len(c) - 1) : c[i].ret = 0 - ENAMETOOLONG
        /\ r # 0 - ENAMETOOLONG
        /\ r = 0 => (last.exc = NoExc /\ last.ret.kind = "str")
        /\ r = 0 - ENOENT => (last.exc = NoExc /\ last.ret = None)
        /\ r \notin {0, 0 - ENOENT} => last.exc.kind = KindOfCode(r)

(* C20 as stated: the retry loop of conf_get has that shape and, for a     *)
(* value of length L, makes at most 1 + ceil(log2(L/20)) native calls.     *)
C20_RetryBoundLog ==
    (ConfGetCalled /\ last.native.need >= 1) =>
        /\ ConfGetLoopShape
        /\ Len(last.calls) <= 1 + CeilLog2Ratio(last.native.need, 20)

(* C20 amended: the retry loop of conf_get has that shape and, for a value *)
(* of length L, makes at most 1 + max(0, ceil(log2(L/20))) native calls    *)
(* (one call when L is 0).                                                 *)
C20_RetryBoundLogAtLeastOne ==
    ConfGetCalled =>
        /\ ConfGetLoopShape
        /\ Len(last.calls) <=
              (IF last.native.need = 0 THEN 1
               ELSE 1 + Max(0, CeilLog2Ratio(last.native.need, 20)))

C20_Witness ==
    /\ ConfGetCalled /\ last.native.need = 41 /\ Len(last.calls) = 3
    /\ last.calls[3].len = 80 /\ last.calls[3].ret = 0

(* C21: finalizing an object whose construction failed before self.state   *)
(* was assigned completes without raising and makes no native shutdown     *)
(* call.                                                                    *)
C21_FinalizeAfterFailedInit ==
    (last.op = "__del__" /\ last.pre = "unset") =>
        /\ last.exc = NoExc
        /\ CallsOf("ceph_shutdown") = {}
        /\ state = "unset" /\ handle = "null"

(* C22: mount() and shutdown() take no lock.  A thread that has passed its *)
(* test of self.state acts on what it read then: the native shutdown call  *)
(* is made, and "mounted" or "shutdown" is stored, whatever the other      *)
(* thread has done to the session in between.  So a session can end        *)
(* "mounted" on a destroyed handle, or have ceph_shutdown called twice.    *)
C22_NoInternalLocking ==
    [][\A t \in Threads :
          /\ (pc[t] = "shutdown_call" /\ pc'[t] # pc[t]) =>
                (nshut' = nshut + 1 /\ handle' = "destroyed")
          /\ (pc[t] = "shutdown_store" /\ pc'[t] # pc[t]) => state' = "shutdown"
          /\ (pc[t] = "mount_store" /\ pc'[t] # pc[t]) => state' = "mounted"]_vars

(* Both threads have returned, ceph_shutdown was called, and the session   *)
(* is left in state "mounted".                                             *)
C22_Witness ==
    /\ \A t \in Threads : pc[t] = "done"
    /\ nshut = 1 /\ handle = "destroyed" /\ state = "mounted"

(* Both threads have returned and ceph_shutdown ran twice on the handle.   *)
C22_DoubleShutdown ==
    /\ \A t \in Threads : pc[t] = "done"
    /\ nshut = 2 /\ state = "shutdown"

=============================================================================
